---- MODULE Spec2Model ----
(***************************************************************************)
(* redshells: feature aggregation similarity model.                        *)
(*                                                                         *)
(* Source: src/redshells/model/feature_aggregation_similarity_model.py     *)
(*                                                                         *)
(* The module holds six state machines over disjoint groups of variables:  *)
(*   SpecAverage  the Average layer applied to a batch                     *)
(*   SpecClip     the Clip layer applied to a value                        *)
(*   SpecGet      FeatureAggregationSimilarityDataset.get                  *)
(*   SpecGraph    the similarity graph scoring a pair of items             *)
(*   SpecModel    the FeatureAggregationSimilarityModel wrapper            *)
(*                (construction, fit, pickling, inference)                 *)
(*   SpecFit      one call of fit: _make_dataset, the two tf.data          *)
(*                pipelines and the epoch loop with EarlyStopping          *)
(* A specification leaves the variables of the other machines untouched.   *)
(*                                                                         *)
(* Numbers.  Embedding entries are integers.  A quotient is kept as a      *)
(* record [n, d] (n/d, d > 0).  A score is kept as a record [p, q2, b, bd] *)
(* standing for  p/sqrt(q2) + b/(bd*Scale)  (the first term is 0 when      *)
(* q2 = 0).  Arithmetic is exact: float32 rounding is not modelled.        *)
(***************************************************************************)
EXTENDS Integers, Sequences, FiniteSets, TLC

VARIABLES
    \* ---- Average.call
    inputs,      \* batch x slots x dim tensor handed to Average.call
    mask,        \* batch x slots mask handed to Average.call
    output,      \* result of Average.call, or None
    \* ---- Clip.call
    clipIn,      \* value handed to Clip.call
    clipOut,     \* Clip.call(clipIn), or None
    clipTwice,   \* Clip.call(Clip.call(clipIn)), or None
    \* ---- FeatureAggregationSimilarityDataset.get
    self,        \* the receiver: five parallel arrays
    before,      \* the receiver's arrays as they were when get was entered
    size,        \* get's argument, or None before the call
    idx,         \* get's local idx after the slice, or None before the call
    result,      \* the dataset get returned, or None
    \* ---- FeatureAggregationSimilarityGraph
    embedding,       \* weights of the feature Embedding layer
    bias_embedding,  \* weights of the item-bias Embedding layer
    similarity,      \* the pair of examples last scored with its two scores, or None
    \* ---- FeatureAggregationSimilarityModel (construction, fit, pickling)
    heap,        \* the weight arrays the layers own, by reference
    wrapper,     \* the wrapper object under observation
    pickled,     \* the 5-tuple __getstate__ returned last, or None
    origin,      \* the wrapper and heap that tuple was taken from, or None
    fits,        \* number of fit calls that trained the wrapper or its ancestors
    raised,      \* the exception the last call raised, or None
    \* ---- one call of fit
    args,        \* fit's arguments and the dataset's size
    pc,          \* where fit is: "train", "validate", "epoch_end", "done", "out_of_data"
    epoch,       \* number of epochs completed
    step,        \* training batches consumed in the current epoch
    vstep,       \* validation batches consumed in the current epoch
    tIn,         \* training pipeline: batches of the current pass read into the shuffle buffer
    tBuf,        \* training pipeline: the shuffle buffer (batch numbers)
    vPos,        \* validation pipeline: batches of the current pass delivered
    best,        \* EarlyStopping.best, None for infinity
    wait,        \* EarlyStopping.wait
    stop_training, \* model.stop_training
    seen,        \* the dataset positions the current epoch has trained on
    answer       \* the answer to the last request for a batch, or None

avgVars  == <<inputs, mask, output>>
clipVars == <<clipIn, clipOut, clipTwice>>
getVars  == <<self, before, size, idx, result>>
graphVars == <<embedding, bias_embedding, similarity>>
modelVars == <<heap, wrapper, pickled, origin, fits, raised>>
fitVars  == <<args, pc, epoch, step, vstep, tIn, tBuf, vPos, best, wait, stop_training, seen, answer>>
vars     == <<avgVars, clipVars, getVars, graphVars, modelVars, fitVars>>

\* an optional value: None, or Some(x) holding x
None == <<>>
Some(x) == <<x>>
Val(o) == o[1]

(***************************************************************************)
(* Helpers on sequences of integers.                                       *)
(***************************************************************************)
RECURSIVE SumSeq(_)
SumSeq(s) == IF s = <<>> THEN 0 ELSE Head(s) + SumSeq(Tail(s))

\* all sequences of length n over S
SeqsOfLen(S, n) == [1..n -> S]

(***************************************************************************)
(* Average layer (lines 30-50).                                            *)
(***************************************************************************)

\* tf.cast(mask, tf.float32): True -> 1.0, False -> 0.0
CastFloat(m) == IF m THEN 1 ELSE 0

\* tf.keras.backend.batch_dot(inputs, mask, axes=1) for one batch row:
\* out[k] = sum over slots s of row[s][k] * maskRow[s]
BatchDot(row, maskRow) ==
    LET slots == Len(row)
        dim   == Len(row[1])
    IN  [k \in 1..dim |-> SumSeq([s \in 1..slots |-> row[s][k] * CastFloat(maskRow[s])])]

\* tf.reduce_sum(mask, axis=1, keepdims=True) for one batch row
ReduceSum(maskRow) == SumSeq([s \in 1..Len(maskRow) |-> CastFloat(maskRow[s])])

\* a division that is not guarded: x/0 keeps the denominator 0 (not a number)
DivPlain(x, y) == [n |-> x, d |-> y]

\* tf.div_no_nan(x, y): x / y, and 0 when y = 0
DivNoNan(x, y) == IF y = 0 THEN [n |-> 0, d |-> 1] ELSE [n |-> x, d |-> y]

\* Average.call(inputs, mask) for one batch row
AverageRow(row, maskRow) ==
    LET num == BatchDot(row, maskRow)
        den == ReduceSum(maskRow)
    IN  [k \in 1..Len(num) |-> DivNoNan(num[k], den)]

\* Average.call(inputs, mask) on the batch
AverageCall(in, m) == [b \in 1..Len(in) |-> AverageRow(in[b], m[b])]

(***************************************************************************)
(* SpecAverage: the layer is fed a batch and called.                       *)
(***************************************************************************)
MaxSlots == 3
BatchRows == 1..2
AvgVals == {-1, 2}

AvgInputs(slots) == [BatchRows -> SeqsOfLen(SeqsOfLen(AvgVals, 1), slots)]
AvgMasks(slots) == [BatchRows -> SeqsOfLen(BOOLEAN, slots)]

GetIdle  == self = <<>> /\ before = <<>> /\ size = None /\ idx = None /\ result = None
FitIdle ==
    /\ args = <<>> /\ pc = "idle" /\ epoch = 0 /\ step = 0 /\ vstep = 0 /\ tIn = 0 /\ tBuf = {}
    /\ vPos = 0 /\ best = None /\ wait = 0 /\ stop_training = FALSE /\ seen = {} /\ answer = None
ModelIdle == heap = <<>> /\ wrapper = <<>> /\ pickled = None /\ origin = None /\ fits = 0 /\ raised = None
GraphIdle == embedding = <<>> /\ bias_embedding = <<>> /\ similarity = None
ClipIdle == clipIn = 0 /\ clipOut = None /\ clipTwice = None
AvgIdle  == inputs = <<>> /\ mask = <<>> /\ output = None

InitAverage ==
    /\ \E slots \in 1..MaxSlots :
          /\ inputs \in AvgInputs(slots)
          /\ mask \in AvgMasks(slots)
    /\ output = None
    /\ ClipIdle /\ GetIdle /\ GraphIdle /\ ModelIdle /\ FitIdle

Call ==
    /\ output = None
    /\ output' = Some(AverageCall(inputs, mask))
    /\ UNCHANGED <<inputs, mask, clipVars, getVars, graphVars, modelVars, fitVars>>

NextAverage == Call

SpecAverage == InitAverage /\ [][NextAverage]_vars

\* number of unmasked slots and the sum over them, stated independently
Unmasked(b) == {s \in 1..Len(mask[b]) : mask[b][s]}
RECURSIVE SumOver(_, _, _)
SumOver(b, k, S) ==
    IF S = {} THEN 0
    ELSE LET s == CHOOSE x \in S : TRUE
         IN  inputs[b][s][k] + SumOver(b, k, S \ {s})

\* the batch with the values at the masked slots of row b replaced by v
Overwritten(b, v) ==
    [c \in 1..Len(inputs) |->
        IF c # b THEN inputs[c]
        ELSE [s \in 1..Len(inputs[c]) |->
                 IF mask[c][s] THEN inputs[c][s] ELSE [k \in 1..Len(inputs[c][s]) |-> v]]]

\* C1: for every batch row, Average.call's output is the sum of the unmasked
\* slots divided by their number, exactly zero when no slot is unmasked, and
\* does not depend on the values held at masked slots.
C1_MaskedAverage ==
    output # None =>
        \A b \in 1..Len(inputs) : \A k \in 1..Len(inputs[b][1]) :
            LET cnt == Cardinality(Unmasked(b))
                o   == Val(output)[b][k]
            IN  /\ o.d > 0
                /\ cnt > 0 => o.n * cnt = SumOver(b, k, Unmasked(b)) * o.d
                /\ cnt = 0 => o.n = 0
                /\ \A v \in AvgVals : AverageCall(Overwritten(b, v), mask)[b] = Val(output)[b]

\* a row with two unmasked slots and a masked one holding a non-zero value,
\* next to a row that is masked entirely although it holds non-zero values
C1_Witness ==
    /\ output # None
    /\ \E b \in 1..Len(inputs) :
          /\ Cardinality(Unmasked(b)) = 2
          /\ \E s \in 1..Len(mask[b]) : ~mask[b][s] /\ inputs[b][s][1] # 0
          /\ Val(output)[b][1].n # 0
    /\ \E b \in 1..Len(inputs) :
          /\ Unmasked(b) = {}
          /\ \E s \in 1..Len(mask[b]) : inputs[b][s][1] # 0

(***************************************************************************)
(* Scores.  [p, q2, b, bd] stands for p/sqrt(q2) + b/(bd*Scale), bd > 0.   *)
(* Scale is the number of units one bias unit 1.0 is divided into.         *)
(***************************************************************************)
Scale == 2

\* the constant c (an integer) as a score
Const(c) == [p |-> 0, q2 |-> 0, b |-> c * Scale, bd |-> 1]

\* v > c, decided exactly: p/sqrt(q2) > r/t with r/t = c - b/(bd*Scale)
GtConst(v, c) ==
    LET t == v.bd * Scale
        r == c * t - v.b
    IN  IF v.q2 = 0 \/ v.p = 0 THEN r < 0
        ELSE IF v.p > 0 THEN r < 0 \/ v.p * v.p * t * t > r * r * v.q2
        ELSE r < 0 /\ v.p * v.p * t * t < r * r * v.q2

\* v < c, decided exactly
LtConst(v, c) ==
    LET t == v.bd * Scale
        r == c * t - v.b
    IN  IF v.q2 = 0 \/ v.p = 0 THEN r > 0
        ELSE IF v.p > 0 THEN r > 0 /\ v.p * v.p * t * t < r * r * v.q2
        ELSE r >= 0 \/ v.p * v.p * t * t > r * r * v.q2

(***************************************************************************)
(* Clip layer (lines 53-72).                                               *)
(***************************************************************************)
\* element-wise minimum / maximum of a score and a constant
Minimum(v, c) == IF GtConst(v, c) THEN Const(c) ELSE v
Maximum(v, c) == IF LtConst(v, c) THEN Const(c) ELSE v

\* a clip that bounds the value from above only
ClipUpperOnly(v) == Minimum(v, 1)

\* Clip.call: tf.keras.backend.clip(inputs, -1.0, 1.0)
ClipCall(v) == Maximum(Minimum(v, 1), -1)

(***************************************************************************)
(* SpecClip: the layer is fed a value and called, and called again on its  *)
(* own output.                                                             *)
(***************************************************************************)
MaxB == 5
ClipInputs ==
    {v \in [p : -2..2, q2 : {0, 1, 2, 4}, b : -MaxB..MaxB, bd : {1, 2}] :
        v.q2 = 0 => v.p = 0}

InitClip ==
    /\ clipIn \in ClipInputs
    /\ clipOut = None
    /\ clipTwice = None
    /\ AvgIdle /\ GetIdle /\ GraphIdle /\ ModelIdle /\ FitIdle

ClipOnce ==
    /\ clipOut = None
    /\ clipOut' = Some(ClipCall(clipIn))
    /\ UNCHANGED <<clipIn, clipTwice, avgVars, getVars, graphVars, modelVars, fitVars>>

ClipAgain ==
    /\ clipOut # None
    /\ clipTwice = None
    /\ clipTwice' = Some(ClipCall(Val(clipOut)))
    /\ UNCHANGED <<clipIn, clipOut, avgVars, getVars, graphVars, modelVars, fitVars>>

NextClip == ClipOnce \/ ClipAgain

SpecClip == InitClip /\ [][NextClip]_vars

\* a value without a square-root part, compared by plain integer arithmetic
IsRational(v) == v.p = 0 \/ v.q2 = 0
RatLeq(v, c) == v.b <= c * v.bd * Scale
RatGeq(v, c) == v.b >= c * v.bd * Scale

\* C8: Clip.call's output lies in [-1, 1]; it is the input when the input
\* lies in [-1, 1] (also at exactly -1 and 1), 1 when the input exceeds 1
\* and -1 when the input is below -1; clipping twice is clipping once.
C8_Clip ==
    /\ clipOut # None =>
          LET v == clipIn
              o == Val(clipOut)
          IN  /\ ~GtConst(o, 1) /\ ~LtConst(o, -1)
              /\ (~GtConst(v, 1) /\ ~LtConst(v, -1)) => o = v
              /\ GtConst(v, 1) => o = Const(1)
              /\ LtConst(v, -1) => o = Const(-1)
              /\ IsRational(o) => RatLeq(o, 1) /\ RatGeq(o, -1)
              /\ (IsRational(v) /\ RatLeq(v, 1) /\ RatGeq(v, -1)) => o = v
              /\ (IsRational(v) /\ ~RatLeq(v, 1)) => o = Const(1)
              /\ (IsRational(v) /\ ~RatGeq(v, -1)) => o = Const(-1)
    /\ clipTwice # None => clipTwice = clipOut

\* the layer has clipped a value below -1, and has been applied twice
C8_Witness ==
    /\ clipTwice # None
    /\ LtConst(clipIn, -1)
    /\ Val(clipOut) = Const(-1)

(***************************************************************************)
(* FeatureAggregationSimilarityDataset (lines 11-27).                      *)
(* A dataset is a record of five arrays (sequences); array positions are   *)
(* numbered from 0 as in numpy, so position i is element i + 1.            *)
(***************************************************************************)
Fields == {"x_item_indices", "y_item_indices", "x_item_features", "y_item_features", "scores"}

\* np.arange(n)
Arange(n) == [i \in 1..n |-> i - 1]

\* the outcomes of np.random.shuffle on a: every rearrangement of a
Shuffles(a) ==
    {s \in [1..Len(a) -> {a[i] : i \in 1..Len(a)}] :
        \A v \in {a[i] : i \in 1..Len(a)} :
            Cardinality({i \in 1..Len(a) : s[i] = v}) = Cardinality({i \in 1..Len(a) : a[i] = v})}

\* a[:n] with Python's slice rules: a negative n counts from the end and
\* an n beyond the length yields the whole array
SliceTo(a, n) ==
    LET stop == IF n < 0 THEN (IF Len(a) + n < 0 THEN 0 ELSE Len(a) + n)
                ELSE IF n > Len(a) THEN Len(a) ELSE n
    IN  SubSeq(a, 1, stop)

\* an indexing that ignores the index array's order
TakeInOrder(a, ix) == SubSeq(a, 1, Len(ix))

\* a.copy()[ix]: numpy indexing with an integer array
Take(a, ix) == [k \in 1..Len(ix) |-> a[ix[k] + 1]]

\* the dataset get builds from the (sliced) index array ix
Subsample(d, ix) == [f \in Fields |-> Take(d[f], ix)]

(***************************************************************************)
(* SpecGet: get is called once on a dataset.                               *)
(***************************************************************************)
MaxN == 3
ExampleRows ==
    { [x_item_indices |-> 1, y_item_indices |-> 2, x_item_features |-> <<1, 0>>,
       y_item_features |-> <<2, 1>>, scores |-> 1],
      [x_item_indices |-> 2, y_item_indices |-> 1, x_item_features |-> <<2, 1>>,
       y_item_features |-> <<1, 0>>, scores |-> 0],
      [x_item_indices |-> 1, y_item_indices |-> 1, x_item_features |-> <<2, 0>>,
       y_item_features |-> <<2, 0>>, scores |-> -1] }

\* the dataset holding the given rows, as five parallel arrays
FromRows(rows) == [f \in Fields |-> [i \in 1..Len(rows) |-> rows[i][f]]]

Datasets == UNION {{FromRows(rows) : rows \in SeqsOfLen(ExampleRows, n)} : n \in 0..MaxN}

InitGet ==
    /\ self \in Datasets
    /\ before = self
    /\ size = None /\ idx = None /\ result = None
    /\ AvgIdle /\ ClipIdle /\ GraphIdle /\ ModelIdle /\ FitIdle

\* get(size), lines 18-27
Get ==
    /\ result = None
    /\ \E sz \in -1..(MaxN + 1) :
       \E shuffled \in Shuffles(Arange(Len(self.scores))) :
          LET ix == SliceTo(shuffled, sz)
          IN  /\ size' = Some(sz)
              /\ idx' = Some(ix)
              /\ result' = Some(Subsample(self, ix))
    /\ UNCHANGED <<self, before, avgVars, clipVars, graphVars, modelVars, fitVars>>

NextGet == Get

SpecGet == InitGet /\ [][NextGet]_vars

\* C4: get(size) with size > 0 returns min(size, N) rows, taken from pairwise
\* distinct original positions, each row's five fields coming from one and
\* the same original row, and leaves the receiver's arrays unchanged.
C4_Get ==
    (result # None /\ Val(size) > 0) =>
        LET N  == Len(before.scores)
            sz == Val(size)
            r  == Val(result)
            want == IF sz <= N THEN sz ELSE N
        IN  /\ \A f \in Fields : Len(r[f]) = want
            /\ \E pos \in [1..want -> 0..(N - 1)] :
                  /\ \A i, j \in 1..want : i # j => pos[i] # pos[j]
                  /\ pos = Val(idx)
                  /\ \A k \in 1..want : \A f \in Fields : r[f][k] = before[f][pos[k] + 1]
            /\ self = before

\* get has returned a proper, reordered subsample of a dataset of differing rows
C4_Witness ==
    /\ result # None
    /\ Val(size) = 2
    /\ Len(self.scores) = 3
    /\ self.scores[1] # self.scores[2] /\ self.scores[2] # self.scores[3]
    /\ Val(idx)[1] > Val(idx)[2]

(***************************************************************************)
(* FeatureAggregationSimilarityGraph (lines 75-121).                       *)
(* An embedding table maps an index to a vector (a sequence of integers);  *)
(* the entries of the bias table are in units of 1/Scale.                  *)
(***************************************************************************)

\* layers.Embedding(...)(indices): the rows of the table at the indices
EmbeddingCall(table, indices) == [s \in 1..Len(indices) |-> table[indices[s]]]

\* Embedding.compute_mask with mask_zero=True: index 0 is masked
ComputeMask(indices) == [s \in 1..Len(indices) |-> indices[s] # 0]

\* self.average(self.embedding(features)), lines 106-109, for one example
Aggregate(table, indices) == AverageRow(EmbeddingCall(table, indices), ComputeMask(indices))

\* tf.keras.layers.dot([x, y], axes=1, normalize=True) of two aggregated
\* vectors: the dot product of the l2-normalised vectors.  The entries of an
\* aggregated vector share one positive denominator, which the
\* normalisation cancels, so the value is (x.n . y.n) / sqrt(|x.n|^2 |y.n|^2),
\* and 0 when either vector is zero.
DotNormalize(x, y) ==
    LET dot == SumSeq([k \in 1..Len(x) |-> x[k].n * y[k].n])
        xx  == SumSeq([k \in 1..Len(x) |-> x[k].n * x[k].n])
        yy  == SumSeq([k \in 1..Len(y) |-> y[k].n * y[k].n])
    IN  [p |-> dot, q2 |-> xx * yy]

\* tf.keras.layers.add([inner_prod, bias_x, bias_y]), line 112
Add(inner, bx, by) ==
    [p |-> inner.p, q2 |-> inner.q2, b |-> bx.n * by.d + by.n * bx.d, bd |-> bx.d * by.d]

\* a graph that adds the first item's bias twice
SimilarityBiasXTwice(emb, bias, x_index, y_index, x_feature, y_feature) ==
    LET embedding_x == Aggregate(emb, x_feature)
        embedding_y == Aggregate(emb, y_feature)
        bias_x == Aggregate(bias, <<x_index>>)[1]
    IN  ClipCall(Add(DotNormalize(embedding_x, embedding_y), bias_x, bias_x))

\* the graph's output for one example, lines 106-113
Similarity(emb, bias, x_index, y_index, x_feature, y_feature) ==
    LET embedding_x == Aggregate(emb, x_feature)
        embedding_y == Aggregate(emb, y_feature)
        bias_x == Aggregate(bias, <<x_index>>)[1]
        bias_y == Aggregate(bias, <<y_index>>)[1]
        inner_prod == DotNormalize(embedding_x, embedding_y)
    IN  ClipCall(Add(inner_prod, bias_x, bias_y))

(***************************************************************************)
(* SpecGraph: a graph with some weights scores a pair of items in both     *)
(* orders.                                                                 *)
(***************************************************************************)
MaxBias == 1
FeatureSize == 2
FeatureIndices == 0..2
ItemIndices == 0..2
BiasValues == -MaxBias..MaxBias
EmbeddingRows == {<<0, 0>>, <<1, 0>>, <<-1, 1>>, <<1, 2>>}

\* feature lists of feature_size slots: distinct features followed by
\* padding, one list padded in front and one repeating a feature
LastOnly(f) == [i \in 1..FeatureSize |-> IF i = FeatureSize THEN f ELSE 0]
AllOf(f) == [i \in 1..FeatureSize |-> f]
FeatureLists ==
    {l \in [1..FeatureSize -> FeatureIndices] :
        \A i \in 1..(FeatureSize - 1) : l[i] > l[i + 1] \/ (l[i] = 0 /\ l[i + 1] = 0)}
    \cup {LastOnly(2), AllOf(2)}

\* the row of the padding index is an ordinary row the mask hides
PaddingRow == <<1, 1>>
EmbeddingTables ==
    {t \in [FeatureIndices -> EmbeddingRows \cup {PaddingRow}] :
        t[0] = PaddingRow /\ \A i \in FeatureIndices \ {0} : t[i] \in EmbeddingRows}
BiasTables == {t \in [ItemIndices -> SeqsOfLen(BiasValues, 1)] : t[0] = <<1>>}
Items == [index : ItemIndices, feature : FeatureLists]

InitGraph ==
    /\ embedding \in EmbeddingTables
    /\ bias_embedding \in BiasTables
    /\ similarity = None
    /\ AvgIdle /\ ClipIdle /\ GetIdle /\ ModelIdle /\ FitIdle

Score ==
    /\ similarity = None
    /\ \E x, y \in Items :
          similarity' = Some([x |-> x, y |-> y,
              xy |-> Similarity(embedding, bias_embedding, x.index, y.index, x.feature, y.feature),
              yx |-> Similarity(embedding, bias_embedding, y.index, x.index, y.feature, x.feature)])
    /\ UNCHANGED <<embedding, bias_embedding, avgVars, clipVars, getVars, modelVars, fitVars>>

NextGraph == Score

SpecGraph == InitGraph /\ [][NextGraph]_vars

\* C7: the score of a pair of items does not change when the two items
\* swap roles.
C7_SwapSymmetry ==
    similarity # None => Val(similarity).xy = Val(similarity).yx

\* two different items with different biases and non-parallel embeddings
\* have been scored, and the score was not clipped
C7_Witness ==
    /\ similarity # None
    /\ LET r == Val(similarity)
       IN  /\ r.x.index # 0 /\ r.y.index # 0
           /\ bias_embedding[r.x.index] # bias_embedding[r.y.index]
           /\ r.x.feature # r.y.feature
           /\ r.xy.p # 0
           /\ r.xy.p * r.xy.p # r.xy.q2
           /\ r.xy # Const(1) /\ r.xy # Const(-1)

(***************************************************************************)
(* FeatureAggregationSimilarityModel (lines 124-170): construction,        *)
(* pickling, fit's effect on the weights, and inference.                   *)
(*                                                                         *)
(* A Keras layer owns its weight array; two Keras models built over the    *)
(* same layer object read and write the same array.  heap maps a reference *)
(* to the array stored there, and a sub-model names its layers' arrays by  *)
(* reference.                                                              *)
(***************************************************************************)
Refs == 1..3

\* __init__, lines 133-139: one graph, hence one feature Embedding layer and
\* one bias Embedding layer; self.model and self.embeddings are both built
\* over graph.embedding; self.model is compiled
Construct(feature_size, emb0, bias0) ==
    [wrapper |-> [feature_size |-> feature_size,
                  model |-> [embedding |-> 1, bias_embedding |-> 2, compiled |-> TRUE],
                  embeddings |-> [embedding |-> 1]],
     heap |-> <<emb0, bias0, <<>> >>]

\* Model.to_json(): the structure of a sub-model, without weights
to_json(w, name) ==
    IF name = "model"
    THEN [inputs |-> <<"input_x_index", "input_y_index", "input_x_feature", "input_y_feature">>,
          layers |-> <<"Embedding", "Embedding", "Average", "Dot", "Add", "Clip">>,
          feature_size |-> w.feature_size]
    ELSE [inputs |-> <<"input_x_feature">>,
          layers |-> <<"Embedding", "Average">>,
          feature_size |-> w.feature_size]

\* Model.get_weights() of self.model and of self.embeddings
get_weights_model(w, h) == <<h[w.model.embedding], h[w.model.bias_embedding]>>
get_weights_embeddings(w, h) == <<h[w.embeddings.embedding]>>

\* __getstate__, lines 141-142
getstate(w, h) ==
    <<w.feature_size, to_json(w, "model"), get_weights_model(w, h),
      to_json(w, "embeddings"), get_weights_embeddings(w, h)>>

\* the array a layer built by model_from_json holds before set_weights
FreshWeights == [i \in FeatureIndices |-> <<0, 0>>]

\* a __setstate__ that rebuilds self.embeddings without restoring its weights
setstateNoEmbeddingWeights(state) ==
    [wrapper |-> [feature_size |-> state[1],
                  model |-> [embedding |-> 1, bias_embedding |-> 2, compiled |-> FALSE],
                  embeddings |-> [embedding |-> 3]],
     heap |-> <<state[3][1], state[3][2], FreshWeights>>]

\* __setstate__, lines 144-150: each model_from_json call builds new layers
\* with arrays of their own, set_weights fills them; nothing is compiled
setstate(state) ==
    LET feature_size == state[1]
        weights == state[3]
        embedding_weights == state[5]
    IN  [wrapper |-> [feature_size |-> feature_size,
                      model |-> [embedding |-> 1, bias_embedding |-> 2, compiled |-> FALSE],
                      embeddings |-> [embedding |-> 3]],
         heap |-> <<weights[1], weights[2], embedding_weights[1]>>]

\* calculate_similarity, lines 166-167: one score per row
calculate_similarity(w, h, x_item_indices, y_item_indices, x_item_features, y_item_features) ==
    [k \in 1..Len(x_item_indices) |->
        Similarity(h[w.model.embedding], h[w.model.bias_embedding],
                   x_item_indices[k], y_item_indices[k], x_item_features[k], y_item_features[k])]

\* calculate_embeddings, lines 169-170: one aggregated embedding per row
calculate_embeddings(w, h, item_features) ==
    [k \in 1..Len(item_features) |-> Aggregate(h[w.embeddings.embedding], item_features[k])]

(***************************************************************************)
(* SpecModel: a wrapper is constructed, then fitted, pickled and restored  *)
(* in any order.                                                           *)
(***************************************************************************)
MaxFits == 2

\* the weights construction may draw and training may arrive at
ModelEmbeddings ==
    { [i \in FeatureIndices |-> IF i = 0 THEN PaddingRow ELSE <<0, 1>>],
      (0 :> PaddingRow @@ 1 :> <<1, 0>> @@ 2 :> <<-1, 1>>),
      (0 :> <<0, 1>> @@ 1 :> <<1, 2>> @@ 2 :> <<0, 1>>) }
ModelBiases ==
    { (0 :> <<1>> @@ 1 :> <<0>> @@ 2 :> <<0>>),
      (0 :> <<1>> @@ 1 :> <<1>> @@ 2 :> <<-1>>) }

InitModel ==
    /\ \E emb0 \in ModelEmbeddings, bias0 \in ModelBiases :
          LET c == Construct(FeatureSize, emb0, bias0)
          IN  wrapper = c.wrapper /\ heap = c.heap
    /\ pickled = None /\ origin = None /\ fits = 0 /\ raised = None
    /\ AvgIdle /\ ClipIdle /\ GetIdle /\ GraphIdle /\ FitIdle

\* fit, lines 152-164, as far as the weights go: Keras refuses to train a
\* model that was not compiled; otherwise the optimizer rewrites the arrays
\* of self.model's layers in place
Fit ==
    /\ fits < MaxFits
    /\ IF ~wrapper.model.compiled
       THEN /\ raised' = Some("RuntimeError")
            /\ UNCHANGED <<heap, fits>>
       ELSE /\ \E emb1 \in ModelEmbeddings, bias1 \in ModelBiases :
                  heap' = [heap EXCEPT ![wrapper.model.embedding] = emb1,
                                       ![wrapper.model.bias_embedding] = bias1]
            /\ fits' = fits + 1
            /\ raised' = None
    /\ UNCHANGED <<wrapper, pickled, origin, avgVars, clipVars, getVars, graphVars, fitVars>>

\* pickle.dumps(wrapper): __getstate__
Serialize ==
    /\ pickled' = Some(getstate(wrapper, heap))
    /\ origin' = Some([wrapper |-> wrapper, heap |-> heap, fits |-> fits])
    /\ raised' = None
    /\ UNCHANGED <<heap, wrapper, fits, avgVars, clipVars, getVars, graphVars, fitVars>>

\* pickle.loads(...): __setstate__ on a new object, observed from now on
Deserialize ==
    /\ pickled # None
    /\ LET r == setstate(Val(pickled))
       IN  wrapper' = r.wrapper /\ heap' = r.heap
    /\ raised' = None
    /\ UNCHANGED <<pickled, origin, fits, avgVars, clipVars, getVars, graphVars, fitVars>>

NextModel == Fit \/ Serialize \/ Deserialize

SpecModel == InitModel /\ [][NextModel]_vars

\* the wrapper under observation came out of __setstate__
Restored == ~wrapper.model.compiled

\* the batches inference is compared on: every single row, and one batch of
\* several rows
ItemBatches == {<<x>> : x \in Items} \cup
    {<<[index |-> 1, feature |-> LastOnly(2)], [index |-> 0, feature |-> AllOf(0)],
       [index |-> 2, feature |-> AllOf(2)]>>}
Indices(batch) == [k \in 1..Len(batch) |-> batch[k].index]
Features(batch) == [k \in 1..Len(batch) |-> batch[k].feature]

\* C2: a wrapper restored from the pickled state of a trained wrapper has the
\* feature_size and the weights of both sub-models of the wrapper that was
\* pickled, and returns the same calculate_similarity and
\* calculate_embeddings results for every input.
C2_RoundTrip ==
    (Restored /\ Val(origin).fits > 0) =>
        LET m == Val(origin)
        IN  /\ wrapper.feature_size = m.wrapper.feature_size
            /\ get_weights_model(wrapper, heap) = get_weights_model(m.wrapper, m.heap)
            /\ get_weights_embeddings(wrapper, heap) = get_weights_embeddings(m.wrapper, m.heap)
            /\ \A xs \in ItemBatches :
                  calculate_embeddings(wrapper, heap, Features(xs))
                      = calculate_embeddings(m.wrapper, m.heap, Features(xs))
            /\ \A xs, ys \in ItemBatches : Len(xs) = Len(ys) =>
                  calculate_similarity(wrapper, heap, Indices(xs), Indices(ys), Features(xs), Features(ys))
                      = calculate_similarity(m.wrapper, m.heap, Indices(xs), Indices(ys), Features(xs), Features(ys))

\* a wrapper restored from a wrapper that fit had trained to non-zero weights
C2_Witness ==
    /\ Restored /\ Val(origin).fits > 0
    /\ heap[wrapper.embeddings.embedding] # FreshWeights
    /\ heap[wrapper.model.bias_embedding][1] # <<0>>

\* C3: the extractor and the scorer read one and the same embedding table
\* (the same storage, hence the same values), and fit can train every
\* wrapper, a restored one too, with its updates visible to the extractor.
C3_WeightSharing ==
    /\ wrapper.embeddings.embedding = wrapper.model.embedding
    /\ heap[wrapper.embeddings.embedding] = heap[wrapper.model.embedding]
    /\ raised = None

(***************************************************************************)
(* fit and _make_dataset (lines 152-164, 172-188).                         *)
(*                                                                         *)
(* A tf.data dataset is the sequence of its elements; the elements of      *)
(* from_tensor_slices are the rows, named by their position 0..N-1 in the  *)
(* arrays.  test_size_rate is a fraction <<numerator, denominator>>.       *)
(***************************************************************************)
Min(a, b) == IF a < b THEN a ELSE b

\* lines 173-177 (steps_per_epochNoPlusOne: the count without the extra step)
data_size(a) == a.data_size
test_data_size(a) == (data_size(a) * a.test_size_rate[1]) \div a.test_size_rate[2]
train_data_size(a) == data_size(a) - test_data_size(a)
steps_per_epochNoPlusOne(a) == train_data_size(a) \div a.batch_size
steps_per_epoch(a) == train_data_size(a) \div a.batch_size + 1
validation_steps(a) == test_data_size(a) \div a.batch_size + 1

\* tf.data.Dataset.from_tensor_slices, lines 179-180
from_tensor_slices(a) == Arange(data_size(a))

\* Dataset.take(n), Dataset.skip(n)
take(ds, n) == SubSeq(ds, 1, Min(n, Len(ds)))
\* a skip that drops nothing
skipNothing(ds, n) == ds
skip(ds, n) == SubSeq(ds, Min(n, Len(ds)) + 1, Len(ds))

\* Dataset.batch(b): consecutive groups of b elements, the last one shorter
batch(ds, b) ==
    LET count == (Len(ds) + b - 1) \div b
    IN  [k \in 1..count |-> SubSeq(ds, (k - 1) * b + 1, Min(k * b, Len(ds)))]

\* the batched datasets of lines 181-185, before shuffle and repeat
validation_batches(a) == batch(take(from_tensor_slices(a), test_data_size(a)), a.batch_size)
train_batches(a) == batch(skip(from_tensor_slices(a), test_data_size(a)), a.batch_size)

\* buffer size of data.shuffle(...), line 184
buffer_size(a) == steps_per_epoch(a) \div 3 + 1

\* the positions a sequence of batches holds
RowsOf(batches) == UNION {{bt[i] : i \in 1..Len(bt)} : bt \in {batches[k] : k \in 1..Len(batches)}}

\* EarlyStopping.on_epoch_end (monitor val_loss, min_delta 0, mode min):
\* the callback's best, wait and the model's stop_training after an epoch
\* whose validation loss is current
Improved(current, bst) == bst = None \/ current < Val(bst)
on_epoch_end(current, bst, wt, patience) ==
    IF Improved(current, bst)
    THEN [best |-> Some(current), wait |-> 0, stop_training |-> FALSE]
    ELSE [best |-> bst, wait |-> wt + 1, stop_training |-> wt + 1 >= patience]

(***************************************************************************)
(* SpecFit: one call of fit on a dataset of data_size rows.                *)
(***************************************************************************)
MaxData == 4
MaxBatch == 2
MaxEpochs == 3
MaxPatience == 2
Rates == {<<0, 1>>, <<1, 4>>, <<1, 2>>}
Losses == {1, 2, 3}

InitFit ==
    /\ args \in [data_size : 1..MaxData, batch_size : 1..MaxBatch, epoch_size : 1..MaxEpochs,
                 test_size_rate : Rates, early_stopping_patience : 0..MaxPatience]
    /\ pc = "train" /\ epoch = 0 /\ step = 0 /\ vstep = 0
    /\ tIn = 0 /\ tBuf = {} /\ vPos = 0
    /\ best = None /\ wait = 0 /\ stop_training = FALSE
    /\ seen = {} /\ answer = None
    /\ AvgIdle /\ ClipIdle /\ GetIdle /\ GraphIdle /\ ModelIdle

others == <<avgVars, clipVars, getVars, graphVars, modelVars>>

\* Model.fit asks the training pipeline (batch, shuffle, repeat) for its
\* next batch and trains on it.  repeat() starts a new pass of the shuffle
\* when the pass is used up; shuffle tops its buffer up from the pass and
\* hands out a random element of it.
TrainStep ==
    /\ pc = "train"
    /\ LET batches == train_batches(args)
           count   == Len(batches)
           fresh   == tIn = count /\ tBuf = {}
           in0     == IF fresh THEN 0 ELSE tIn
           buf0    == IF fresh THEN {} ELSE tBuf
           k       == Min(buffer_size(args) - Cardinality(buf0), count - in0)
           buf1    == buf0 \cup ((in0 + 1)..(in0 + k))
       IN  IF buf1 = {}
           THEN /\ answer' = Some([of |-> "train", batch |-> <<>>, end_of_sequence |-> TRUE])
                /\ pc' = "out_of_data"
                /\ UNCHANGED <<step, tIn, tBuf, seen>>
           ELSE \E e \in buf1 :
                /\ tIn' = in0 + k
                /\ tBuf' = buf1 \ {e}
                /\ answer' = Some([of |-> "train", batch |-> batches[e], end_of_sequence |-> FALSE])
                /\ seen' = seen \cup {batches[e][i] : i \in 1..Len(batches[e])}
                /\ step' = step + 1
                /\ pc' = IF step + 1 = steps_per_epoch(args) THEN "validate" ELSE "train"
    /\ UNCHANGED <<args, epoch, vstep, vPos, best, wait, stop_training, others>>

\* Model.fit asks the validation pipeline (batch, repeat) for its next
\* batch.  repeat() over a dataset without elements ends at once: the
\* request is answered with end-of-sequence and fit is cut short.
ValidationStep ==
    /\ pc = "validate"
    /\ LET batches == validation_batches(args)
           count   == Len(batches)
           pos     == IF vPos = count THEN 0 ELSE vPos
       IN  IF count = 0
           THEN /\ answer' = Some([of |-> "validation", batch |-> <<>>, end_of_sequence |-> TRUE])
                /\ pc' = "out_of_data"
                /\ UNCHANGED <<vstep, vPos>>
           ELSE /\ vPos' = pos + 1
                /\ answer' = Some([of |-> "validation", batch |-> batches[pos + 1], end_of_sequence |-> FALSE])
                /\ vstep' = vstep + 1
                /\ pc' = IF vstep + 1 = validation_steps(args) THEN "epoch_end" ELSE "validate"
    /\ UNCHANGED <<args, epoch, step, tIn, tBuf, best, wait, stop_training, seen, others>>

\* the end of an epoch: the EarlyStopping callback sees the epoch's
\* validation loss; fit goes on with the next epoch unless the callback
\* stopped it or epoch_size epochs are done
EpochEnd ==
    /\ pc = "epoch_end"
    /\ \E val_loss \in Losses :
          LET cb == on_epoch_end(val_loss, best, wait, args.early_stopping_patience)
          IN  /\ best' = cb.best
              /\ wait' = cb.wait
              /\ stop_training' = cb.stop_training
              /\ epoch' = epoch + 1
              /\ IF cb.stop_training \/ epoch + 1 = args.epoch_size
                 THEN pc' = "done" /\ UNCHANGED <<step, vstep, seen>>
                 ELSE pc' = "train" /\ step' = 0 /\ vstep' = 0 /\ seen' = {}
    /\ UNCHANGED <<args, tIn, tBuf, vPos, answer, others>>

NextFit == TrainStep \/ ValidationStep \/ EpochEnd

SpecFit == InitFit /\ [][NextFit]_vars

TrainRows == RowsOf(train_batches(args))
ValidationRows == RowsOf(validation_batches(args))
BatchRowsOf(a) == {a.batch[i] : i \in 1..Len(a.batch)}

\* C5: with T = floor(N * test_size_rate), the validation sequence draws only
\* from positions 0..T-1 and the training sequence only from T..N-1; the two
\* sets are disjoint and together cover all N rows.
C5_Split ==
    LET N == args.data_size
        T == (N * args.test_size_rate[1]) \div args.test_size_rate[2]
    IN  /\ ValidationRows = 0..(T - 1)
        /\ TrainRows = T..(N - 1)
        /\ ValidationRows \cap TrainRows = {}
        /\ ValidationRows \cup TrainRows = 0..(N - 1)
        /\ (answer # None /\ Val(answer).of = "validation") => BatchRowsOf(Val(answer)) \subseteq 0..(T - 1)
        /\ (answer # None /\ Val(answer).of = "train") => BatchRowsOf(Val(answer)) \subseteq T..(N - 1)

\* both sequences have delivered batches in a second epoch of a split with
\* a non-empty validation part
C5_Witness ==
    /\ test_data_size(args) > 0
    /\ train_data_size(args) > 1
    /\ epoch >= 1
    /\ answer # None /\ Val(answer).of = "validation" /\ Val(answer).batch # <<>>
    /\ seen # {}

\* C6: fit ends after at most epoch_size epochs, every epoch consumes exactly
\* steps_per_epoch training batches and validation_steps validation batches,
\* and fit ends before epoch_size epochs exactly when the validation loss has
\* failed to improve for early_stopping_patience consecutive epochs.
C6_FitEpochs ==
    /\ pc \in {"train", "validate", "epoch_end", "done"}
    /\ epoch <= args.epoch_size
    /\ pc \in {"epoch_end", "done"} =>
          step = steps_per_epoch(args) /\ vstep = validation_steps(args)
    /\ pc = "done" =>
          /\ epoch < args.epoch_size => (stop_training /\ wait >= args.early_stopping_patience)
          /\ stop_training <=> (wait >= 1 /\ wait >= args.early_stopping_patience)
    /\ pc \in {"train", "validate", "epoch_end"} => ~stop_training

\* C9: every request for the next training batch and for the next validation
\* batch is answered with a non-empty batch.
C9_BatchesForever ==
    answer # None => (~Val(answer).end_of_sequence /\ Val(answer).batch # <<>>)

\* C10 as stated: every epoch, the first and every later one, has trained on
\* every training row once its steps_per_epoch batches are consumed.
C10_EveryEpochCovers ==
    pc \in {"validate", "epoch_end", "done", "out_of_data"} => TrainRows \subseteq seen

\* batch_size divides train_size, so an epoch takes one batch more than a pass holds
Divides == train_data_size(args) % args.batch_size = 0
PassLength == Len(train_batches(args))

\* C10 amended: the first epoch trains on every training row, and so does
\* every later epoch when batch_size does not divide train_size or a pass
\* holds at most two batches.
C10_Coverage ==
    (pc \in {"validate", "epoch_end", "done", "out_of_data"}
        /\ (epoch = 0 \/ ~Divides \/ PassLength <= 2))
    => TrainRows \subseteq seen

\* a later epoch has consumed its batches in a run whose passes hold two
\* batches and whose epochs take three
C10_Witness ==
    /\ pc = "validate"
    /\ epoch >= 1
    /\ PassLength = 2 /\ Divides
    /\ TrainRows \subseteq seen

====
